---- MODULE Spec2Model ----
(***************************************************************************)
(* Model of the Terraform Enterprise client (package tfe), latest revision *)
(* of client.go: the retry loop withRetries, the request executor          *)
(* Client.do, and the exported operations built on them.                   *)
(*                                                                         *)
(* One call runs at a time.  `op` names the running operation and `pc` its *)
(* position: "idle" (nothing called yet), "attempt" (withRetries is about  *)
(* to invoke f), "sleep" (f's result was judged retryable, time.Sleep is   *)
(* next), "ret" (c.do / withRetries has returned `err` to the operation),  *)
(* "done" (the operation has returned `ret` to its caller).                *)
(***************************************************************************)
EXTENDS Integers, Sequences, FiniteSets, TLC

(* ------------------------------ bounds -------------------------------- *)
\* largest number of pages the server holds for a list endpoint
MaxPages == 3
\* largest `attempts` argument of a direct withRetries call
MaxAttemptsArg == 3
\* cap on the number of c.do calls one operation may issue (a pagination
\* loop that never advances would otherwise run for ever)
MaxDoCalls == 5
\* number of attempt caps below 1 (0, -1, ...) tried when withRetries and
\* retryHTTPClient.Do are called with any cap
CapsBelowOne == 2

(* ------------------------- program constants -------------------------- *)
\* interval := 500 * time.Millisecond
interval == 500
\* the attempts argument Client.do passes to withRetries
doAttempts == 10

VARIABLES
    BaseURL,     \* Client.BaseURL: "valid" or "malformed" (url.Parse fails)
    totalPages,  \* server side: number of pages behind every list endpoint
    op,          \* the operation called
    pc,          \* its position
    req,         \* do's request descriptor: method, path, query
    bodyBuf,     \* do's body io.Reader: "nil", or how much of the buffer is unread
    attempts,    \* withRetries: attempts
    retryOn,     \* withRetries: the results for which shouldRetry returns true
    i,           \* withRetries: loop index
    err,         \* withRetries: err
    calls,       \* number of invocations of f in the current withRetries call
    seen,        \* the results f has produced in the current withRetries call
    last,        \* the result of the latest invocation of f
    sleeps,      \* durations (ms) passed to time.Sleep in the current withRetries call
    resp,        \* the wrapper value do decodes into (recv)
    acc,         \* the list accumulated by a list operation
    issued,      \* the requests the operation passed to c.do, one per c.do call
    requests,    \* the requests the current c.do handed to c.client.Do, one per attempt
    outcome,     \* what the latest attempt of c.do met (see Outcomes)
    clean,       \* every attempt of the operation so far got a 2xx with a body that decodes
    ret,         \* what the operation returned: [val, err]
    conc         \* two operations called concurrently on the Client: the locals
                 \* of each call (frames), and of the same call run alone

vars == <<BaseURL, totalPages, op, pc, req, bodyBuf, attempts, retryOn, i, err,
          calls, seen, last, sleeps, resp, acc, issued, requests,
          outcome, clean, ret, conc>>

\* the variables of a single sequential call
callVars == <<totalPages, op, pc, req, bodyBuf, attempts, retryOn, i, err,
              calls, seen, last, sleeps, resp, acc, issued, requests,
              outcome, clean, ret>>

(* --------------------------- error values ----------------------------- *)
\* "nil"; the package's error variables; a net.Error whose Timeout() is true
\* ("NetTimeout"); any other error of client.Do such as a DNS or connection
\* failure ("NetError"); an error of json Decode on a malformed body
\* ("DecodeError"); the error of url.Parse ("ParseError"); an error of
\* ioutil.ReadAll on the body of a download ("ReadError").
ErrorValues ==
    {"nil", "ErrUnauthorized", "ErrNotFound", "ErrWorkspaceNotFound",
     "ErrStateVersionNotFound", "ErrBadStatus", "NetTimeout", "NetError",
     "DecodeError", "ParseError", "ReadError"}

\* results a directly called f may produce
FResults == {"nil", "ErrBadStatus", "ErrNotFound", "NetTimeout"}

\* status codes a response may carry
Statuses == {101, 200, 201, 401, 404, 500}

\* what reading and decoding the body of a response does: it decodes, it is
\* malformed, or the read times out (the client's Timeout covers the body)
Bodies == {"ok", "malformed", "timeout"}

ListOps == {"ListOrganizations", "ListWorkspaces", "ListStateVersions"}
GetOps == {"GetWorkspace", "GetStateVersion"}
BodyOps == {"CreateRun", "CreateWorkspace", "AssignWorkspaceSSHKey", "CreateVariable"}

(* ----------------------------- server --------------------------------- *)
\* the data array of page p of a list endpoint
PageData(p) == [j \in 1..((p % 2) + 1) |-> 10 * p + j]

\* the resource a single-resource endpoint returns
Resource(path) == "data:" \o path

\* the page a list request names: page[number], page 1 when absent
PageOf(query) == IF query.page = 0 THEN 1 ELSE query.page

\* the decoded wrapper of a successful response to request r
ServerResponse(r) ==
    IF r.path \in {"organizations", "workspaces", "state-versions"}
    THEN [CurrentPage |-> PageOf(r.query), TotalPages |-> totalPages,
          Data |-> PageData(PageOf(r.query))]
    ELSE [CurrentPage |-> 0, TotalPages |-> 0, Data |-> Resource(r.path)]

(* --------------------------- withRetries ------------------------------ *)
\* time.Sleep(interval * time.Duration(math.Pow(2, float64(i)))), in ms
BackoffMutant(k) == interval * (k + 1)
Backoff(k) == interval * (2 ^ k)

\* the loop condition i < attempts
LoopCondMutant(k, n) == k + 1 < n
LoopCondLeMutant(k, n) == k <= n
LoopCond(k, n) == k < n

\* shouldRetry(err) of the running withRetries call
shouldRetryMutant(e) == TRUE
shouldRetry(e) == e \in retryOn

\* err = f(); if !shouldRetry(err) { return err }
AfterF(e) ==
    /\ err' = e
    /\ calls' = calls + 1
    /\ seen' = seen \cup {e}
    /\ last' = e
    /\ pc' = IF shouldRetry(e) THEN "sleep" ELSE "ret"
    /\ UNCHANGED <<attempts, retryOn, i, sleeps>>

\* a direct call withRetries(f, shouldRetry, attempts) with attempts drawn
\* from ns, up to the first loop condition
withRetriesCall(ns) ==
    /\ pc = "idle"
    /\ \E n \in ns, s \in SUBSET FResults :
          /\ attempts' = n
          /\ retryOn' = s
          /\ pc' = IF LoopCond(0, n) THEN "attempt" ELSE "ret"
    /\ op' = "withRetries"
    /\ i' = 0
    /\ err' = "nil"
    /\ calls' = 0
    /\ seen' = {}
    /\ sleeps' = <<>>
    /\ UNCHANGED <<BaseURL, conc, totalPages, req, bodyBuf, last, resp, acc, issued, requests,
                   outcome, clean, ret>>

\* the caps a caller may pass: those of the documented range (1 and more)
\* and those below it
Caps == (1 - CapsBelowOne)..MaxAttemptsArg

\* a direct call with attempts >= 1
withRetries == withRetriesCall(1..MaxAttemptsArg)

\* a direct call with any attempts
withRetriesAnyCap == withRetriesCall(Caps)

\* one invocation of a directly supplied f
fAttempt ==
    /\ pc = "attempt"
    /\ op = "withRetries"
    /\ \E e \in FResults : AfterF(e)
    /\ UNCHANGED <<BaseURL, conc, totalPages, op, req, bodyBuf, resp, acc, issued, requests,
                   outcome, clean, ret>>

\* time.Sleep(...); i++; then the loop condition, and `return err` after the loop
Sleep ==
    /\ pc = "sleep"
    /\ sleeps' = Append(sleeps, Backoff(i))
    /\ i' = i + 1
    /\ pc' = IF LoopCond(i + 1, attempts) THEN "attempt" ELSE "ret"
    /\ UNCHANGED <<BaseURL, conc, totalPages, op, req, bodyBuf, attempts, retryOn, err,
                   calls, seen, last, resp, acc, issued, requests, outcome, clean, ret>>

\* the direct call returns withRetries' result
withRetriesReturn ==
    /\ pc = "ret"
    /\ op = "withRetries"
    /\ ret' = [val |-> "", err |-> err]
    /\ pc' = "done"
    /\ UNCHANGED <<BaseURL, conc, totalPages, op, req, bodyBuf, attempts, retryOn, i, err,
                   calls, seen, last, sleeps, resp, acc, issued, requests, outcome, clean>>

(* ----------------------------- Client.do ------------------------------ *)
\* the switch on resp.StatusCode: the error returned, or "decode" when the
\* attempt goes on to decode the body
classifyMutant(status) ==
    IF status = 404 THEN "ErrNotFound"
    ELSE IF status > 299 THEN "ErrBadStatus"
    ELSE "decode"
classify(status) ==
    IF status = 401 THEN "ErrUnauthorized"
    ELSE IF status = 404 THEN "ErrNotFound"
    ELSE IF status > 299 THEN "ErrBadStatus"
    ELSE "decode"

\* err = decoder.Decode(&recv): Decode returns the body reader's error as it
\* is, so a read that times out gives a net.Error whose Timeout() is true
decode(body) ==
    CASE body = "ok" -> "nil"
      [] body = "malformed" -> "DecodeError"
      [] body = "timeout" -> "NetTimeout"

\* the shouldRetry closure do passes to withRetries
doShouldRetryMutant(e) == e \in {"ErrBadStatus", "NetTimeout", "DecodeError"}
doShouldRetryNetMutant(e) == e \in {"ErrBadStatus", "NetTimeout", "NetError"}
doShouldRetry(e) == e = "ErrBadStatus" \/ e = "NetTimeout"

\* what one attempt meets: client.Do fails with error e, or a response with
\* a status and a body arrives
Outcomes ==
    [kind : {"err"}, e : {"NetTimeout", "NetError"}, status : {0}, body : {"ok"}]
    \cup [kind : {"resp"}, e : {"nil"}, status : Statuses, body : Bodies]

\* the error the closure f of do returns for outcome o
AttemptResult(o) ==
    IF o.kind = "err" THEN o.e
    ELSE IF classify(o.status) # "decode" THEN classify(o.status)
    ELSE decode(o.body)

\* what the attempt saw of outcome o: the body of a response is read only when
\* the status switch lets the attempt through to the decoder
Met(o) ==
    IF o.kind = "resp" /\ classify(o.status) # "decode"
    THEN [o EXCEPT !.body = "unread"]
    ELSE o

\* the unread part of the body buffer after a request built from it was
\* handed to client.Do: a request that got a response was written whole; one
\* that failed may have been written in part, whole or not at all
BodyAfter(b, o) ==
    IF b = "nil" THEN {"nil"}
    ELSE IF o.kind = "resp" THEN {"empty"}
    ELSE CASE b = "full" -> {"full", "partial", "empty"}
           [] b = "partial" -> {"partial", "empty"}
           [] b = "empty" -> {"empty"}

\* the server answered the attempt with a successful status and a body that
\* decodes
Served(o) == o.kind = "resp" /\ o.status \in 200..299 /\ o.body = "ok"

\* the empty url.Values do substitutes for a nil query
NoQuery == [filter |-> FALSE, page |-> 0]

\* parsed, err := url.Parse(c.BaseURL); if err != nil { return err }
urlParseFailsMutant == FALSE
urlParseFails == BaseURL = "malformed"

\* c.do(method, path, body, query, &resp) up to the first attempt: url.Parse,
\* then the call of withRetries with the two closures and 10 attempts
do(method, path, body, query) ==
    /\ issued' = Append(issued, [method |-> method, path |-> path, query |-> query,
                                  body |-> body])
    /\ requests' = <<>>
    /\ IF urlParseFails
       THEN /\ err' = "ParseError"
            /\ pc' = "ret"
            /\ UNCHANGED <<req, bodyBuf, attempts, retryOn, i, calls, seen, sleeps>>
       ELSE /\ req' = [method |-> method, path |-> path, query |-> query]
            /\ bodyBuf' = body
            /\ attempts' = doAttempts
            /\ retryOn' = {e \in ErrorValues : doShouldRetry(e)}
            /\ i' = 0
            /\ err' = "nil"
            /\ calls' = 0
            /\ seen' = {}
            /\ sleeps' = <<>>
            /\ pc' = "attempt"

\* the running withRetries call is the one of downloadStateVersion, whose f
\* calls c.client.Get
InDownload == req.method = "client.Get"

\* req.Header.Add("Authorization", "Bearer " + c.AtlasToken) and
\* req.Header.Add("Content-Type", "application/vnd.api+json")
doHeaders == [auth |-> "Bearer AtlasToken", contentType |-> "application/vnd.api+json"]

\* c.client.Get(url) builds its request itself and adds neither header
clientGetHeadersMutant == doHeaders
clientGetHeaders == [auth |-> "none", contentType |-> "none"]

\* one invocation of the closure f of do: build the request, send it,
\* classify the status, decode the body
doAttempt ==
    /\ pc = "attempt"
    /\ op # "withRetries"
    /\ ~InDownload
    /\ \E o \in Outcomes :
          /\ requests' = Append(requests,
                [method |-> req.method, path |-> req.path, query |-> req.query,
                 body |-> bodyBuf, auth |-> doHeaders.auth,
                 contentType |-> doHeaders.contentType])
          /\ bodyBuf' \in BodyAfter(bodyBuf, o)
          /\ resp' = IF AttemptResult(o) = "nil" THEN ServerResponse(req) ELSE resp
          /\ outcome' = Met(o)
          /\ clean' = (clean /\ Served(o))
          /\ AfterF(AttemptResult(o))
    /\ UNCHANGED <<BaseURL, conc, totalPages, op, req, acc, issued, ret>>

\* an operation returns (val, e) to its caller
Finish(val, e) ==
    /\ ret' = [val |-> val, err |-> e]
    /\ pc' = "done"
    /\ UNCHANGED <<BaseURL, conc, totalPages, op, req, bodyBuf, attempts, retryOn, i, err,
                   calls, seen, last, sleeps, resp, acc, issued, requests, outcome, clean>>

\* an operation is called and issues its first c.do
Call(o, method, path, body, query) ==
    /\ pc = "idle"
    /\ op' = o
    /\ do(method, path, body, query)
    /\ UNCHANGED <<BaseURL, conc, totalPages, last, resp, acc, outcome, clean, ret>>

(* ------------------------- single resources --------------------------- *)
\* if err == ErrNotFound { return Workspace{}, ErrWorkspaceNotFound }
workspaceErrMutant(e) == e
workspaceErr(e) == IF e = "ErrNotFound" THEN "ErrWorkspaceNotFound" ELSE e

\* if err == ErrNotFound { return StateVersion{}, ErrStateVersionNotFound }
stateVersionErrMutant(e) == e
stateVersionErr(e) == IF e = "ErrNotFound" THEN "ErrStateVersionNotFound" ELSE e

GetWorkspace == Call("GetWorkspace", "GET", "workspace", "nil", NoQuery)

GetWorkspaceReturn ==
    /\ pc = "ret"
    /\ op = "GetWorkspace"
    /\ IF err # "nil" THEN Finish("", workspaceErr(err)) ELSE Finish(resp.Data, "nil")

GetStateVersion == Call("GetStateVersion", "GET", "state-version", "nil", NoQuery)

GetStateVersionReturn ==
    /\ pc = "ret"
    /\ op = "GetStateVersion"
    /\ IF err # "nil" THEN Finish("", stateVersionErr(err)) ELSE Finish(resp.Data, "nil")

CreateRun == Call("CreateRun", "POST", "runs", "full", NoQuery)

CreateWorkspace == Call("CreateWorkspace", "POST", "workspaces", "full", NoQuery)

CreateVariable == Call("CreateVariable", "POST", "vars", "full", NoQuery)

\* CreateRun, CreateWorkspace and CreateVariable end alike:
\* if err != nil { return X{}, err }; return resp.Data, nil
CreateReturn ==
    /\ pc = "ret"
    /\ op \in {"CreateRun", "CreateWorkspace", "CreateVariable"}
    /\ IF err # "nil" THEN Finish("", err) ELSE Finish(resp.Data, "nil")

AssignWorkspaceSSHKey == Call("AssignWorkspaceSSHKey", "PATCH", "ssh-key", "full", NoQuery)

AssignWorkspaceSSHKeyReturn ==
    /\ pc = "ret"
    /\ op = "AssignWorkspaceSSHKey"
    /\ Finish("", err)

(* ------------------------------- lists -------------------------------- *)
\* the error branch of a list operation's c.do: return []X{}, err
ListFailMutant(e) == Finish(acc, e)
ListFail(e) == Finish(<<>>, e)

\* the success branch: append resp.Data, then the pagination loop: while
\* CurrentPage < TotalPages issue c.do with the query q, else return the list
ListStep(method, path, q) ==
    /\ acc' = acc \o resp.Data
    /\ IF resp.CurrentPage < resp.TotalPages
       THEN /\ Len(issued) < MaxDoCalls
            /\ do(method, path, "nil", q)
            /\ UNCHANGED <<BaseURL, conc, totalPages, op, last, resp, outcome, clean, ret>>
       ELSE /\ ret' = [val |-> acc \o resp.Data, err |-> "nil"]
            /\ pc' = "done"
            /\ UNCHANGED <<BaseURL, conc, totalPages, op, req, bodyBuf, attempts, retryOn, i,
                           err, calls, seen, last, sleeps, resp, issued, requests, outcome, clean>>

ListOrganizations == Call("ListOrganizations", "GET", "organizations", "nil", NoQuery)

\* the loop builds q with page[number] = CurrentPage+1 but passes nil to c.do
ListOrganizationsReturn ==
    /\ pc = "ret"
    /\ op = "ListOrganizations"
    /\ IF err # "nil" THEN ListFail(err)
       ELSE ListStep("GET", "organizations", NoQuery)

ListWorkspaces == Call("ListWorkspaces", "GET", "workspaces", "nil", NoQuery)

ListWorkspacesReturn ==
    /\ pc = "ret"
    /\ op = "ListWorkspaces"
    /\ IF err # "nil" THEN ListFail(workspaceErr(err))
       ELSE ListStep("GET", "workspaces",
                     [filter |-> FALSE, page |-> resp.CurrentPage + 1])

ListStateVersions ==
    Call("ListStateVersions", "GET", "state-versions", "nil", [filter |-> TRUE, page |-> 0])

ListStateVersionsReturnMutant ==
    /\ pc = "ret"
    /\ op = "ListStateVersions"
    /\ IF err # "nil" THEN ListFail(stateVersionErr(err))
       ELSE ListStep("GET", "state-versions",
                     [filter |-> FALSE, page |-> resp.CurrentPage + 1])
ListStateVersionsReturn ==
    /\ pc = "ret"
    /\ op = "ListStateVersions"
    /\ IF err # "nil" THEN ListFail(stateVersionErr(err))
       ELSE ListStep("GET", "state-versions",
                     [filter |-> TRUE, page |-> resp.CurrentPage + 1])

(* ------------------------ latest state version ------------------------ *)
\* the ID of a decoded resource
IDOf(data) == data

\* fmt.Sprintf("/api/v2/workspaces/%s/current-state-version", workspaceData.ID)
CurrentStateVersionPathMutant(id) == "workspaces/" \o id
CurrentStateVersionPath(id) == "workspaces/" \o id \o "/current-state-version"

\* GetLatestStateVersion from the return of its GetWorkspace call on: the
\* error return, or the c.do for the workspace's current state version
currentStateVersion ==
    IF err # "nil" THEN Finish("", workspaceErr(err))
    ELSE /\ do("GET", CurrentStateVersionPath(IDOf(resp.Data)), "nil", NoQuery)
         /\ UNCHANGED <<BaseURL, conc, totalPages, op, last, resp, acc, outcome, clean, ret>>

GetLatestStateVersion ==
    Call("GetLatestStateVersion", "GET", "workspace", "nil", NoQuery)

GetLatestStateVersionReturn ==
    /\ pc = "ret"
    /\ op = "GetLatestStateVersion"
    /\ IF Len(issued) = 1 THEN currentStateVersion
       ELSE IF err # "nil" THEN Finish("", stateVersionErr(err))
       ELSE Finish(resp.Data, "nil")

(* ------------------------------ download ------------------------------ *)
\* sv.Attributes.HostedStateDownloadURL of a decoded state version
HostedStateDownloadURL(sv) == "url:" \o sv

\* the bytes behind a download URL, and what ioutil.ReadAll has read of them
\* when the read fails
Bytes(url) == "bytes:" \o url
PartialBytes(url) == "byt"

\* what one c.client.Get meets: an error, or a response with a status and a
\* body whose read succeeds or fails
DownloadOutcomes ==
    [kind : {"err"}, e : {"NetTimeout", "NetError"}, status : {0}, body : {"ok"}]
    \cup [kind : {"resp"}, e : {"nil"}, status : Statuses, body : {"ok", "readfail"}]

\* the closure f of downloadStateVersion: the error of Get, ErrBadStatus for a
\* status other than 200, else nil
downloadResultMutant(o) ==
    IF o.kind = "err" THEN o.e
    ELSE IF o.status > 299 THEN "ErrBadStatus"
    ELSE "nil"
downloadResult(o) ==
    IF o.kind = "err" THEN o.e
    ELSE IF o.status # 200 THEN "ErrBadStatus"
    ELSE "nil"

\* the shouldRetry closure of downloadStateVersion
downloadShouldRetry(e) == e = "ErrBadStatus" \/ e = "NetTimeout"

\* what the download saw of outcome o: the body is read only after a 200
DownloadMet(o) ==
    IF o.kind = "resp" /\ downloadResult(o) # "nil"
    THEN [o EXCEPT !.body = "unread"]
    ELSE o

\* c.downloadStateVersion(sv) up to the first attempt: a withRetries call of
\* its own, with 10 attempts
downloadStateVersionMutant ==
    /\ req' = [method |-> "client.Get", path |-> HostedStateDownloadURL(resp.Data),
               query |-> NoQuery]
    /\ pc' = IF LoopCond(i, attempts) THEN "attempt" ELSE "ret"
    /\ retryOn' = {e \in ErrorValues : downloadShouldRetry(e)}
    /\ UNCHANGED <<BaseURL, conc, totalPages, op, bodyBuf, last, resp, acc, issued, requests,
                   outcome, clean, ret, attempts, i, err, calls, seen, sleeps>>
downloadStateVersion ==
    /\ req' = [method |-> "client.Get", path |-> HostedStateDownloadURL(resp.Data),
               query |-> NoQuery]
    /\ attempts' = doAttempts
    /\ retryOn' = {e \in ErrorValues : downloadShouldRetry(e)}
    /\ i' = 0
    /\ err' = "nil"
    /\ calls' = 0
    /\ seen' = {}
    /\ sleeps' = <<>>
    /\ pc' = "attempt"
    /\ UNCHANGED <<BaseURL, conc, totalPages, op, bodyBuf, last, resp, acc, issued, requests,
                   outcome, clean, ret>>

\* one invocation of the closure f of downloadStateVersion
downloadAttempt ==
    /\ pc = "attempt"
    /\ InDownload
    /\ \E o \in DownloadOutcomes :
          /\ requests' = Append(requests,
                [method |-> "GET", path |-> req.path, query |-> NoQuery,
                 body |-> "nil", auth |-> clientGetHeaders.auth,
                 contentType |-> clientGetHeaders.contentType])
          /\ outcome' = DownloadMet(o)
          /\ clean' = (clean /\ o.kind = "resp" /\ o.status = 200 /\ o.body = "ok")
          /\ AfterF(downloadResult(o))
    /\ UNCHANGED <<BaseURL, conc, totalPages, op, req, bodyBuf, resp, acc, issued, ret>>

\* downloadStateVersion after withRetries: if err != nil { return nil, err };
\* raw, err := ioutil.ReadAll(resp.Body); return raw, err
downloadReturn ==
    /\ pc = "ret"
    /\ InDownload
    /\ IF err # "nil" THEN Finish("", err)
       ELSE IF outcome.body = "ok" THEN Finish(Bytes(req.path), "nil")
       ELSE Finish(PartialBytes(req.path), "ReadError")

DownloadState == Call("DownloadState", "GET", "state-version", "nil", NoQuery)

\* sv, err := c.GetStateVersion(...); if err != nil { return nil, err };
\* return c.downloadStateVersion(sv)
DownloadStateReturn ==
    /\ pc = "ret"
    /\ op = "DownloadState"
    /\ ~InDownload
    /\ IF err # "nil" THEN Finish("", stateVersionErr(err))
       ELSE downloadStateVersion

DownloadLatestState == Call("DownloadLatestState", "GET", "workspace", "nil", NoQuery)

\* sv, err := c.GetLatestStateVersion(...); if err != nil { return nil, err };
\* return c.downloadStateVersion(sv)
DownloadLatestStateReturn ==
    /\ pc = "ret"
    /\ op = "DownloadLatestState"
    /\ ~InDownload
    /\ IF Len(issued) = 1 THEN currentStateVersion
       ELSE IF err # "nil" THEN Finish("", stateVersionErr(err))
       ELSE downloadStateVersion

(* ------------- retryHTTPClient (the earlier retrying transport) ------- *)
\* the transport New builds: Interval: 500 * time.Millisecond, in ms
Interval == 500
\* ... and MaxAttempts: 10; ShouldRetry is left nil
MaxAttempts == 10

\* req.Body of the request handed to Do: nil, or a body
RequestBodies == {"nil", "body"}

\* what c.Client.Do(req) returns: a nil response with an error, or a response
\* with a nil error
TransportOutcomes ==
    [kind : {"err"}, e : {"NetTimeout", "NetError"}, status : {0}, body : {"ok"}]
    \cup [kind : {"resp"}, e : {"nil"}, status : Statuses, body : {"ok"}]

\* defaultShouldRetry(resp, e): resp.StatusCode is read first, which panics on
\* the nil response that comes with an error; then a status other than 200
\* is retried; then a timeout is
defaultShouldRetry(o) ==
    IF o.kind = "err" THEN "panic"
    ELSE IF o.status # 200 THEN "retry"
    ELSE IF o.e = "NetTimeout" THEN "retry"
    ELSE "return"

\* retryHTTPClient.Do(req) up to the loop: the panic on a request with a
\* body, the choice of the predicate, the first loop condition
transportCall(m) ==
    /\ pc = "idle"
    /\ op' = "retryHTTPClient.Do"
    /\ \E b \in RequestBodies :
          /\ bodyBuf' = b
          /\ pc' = IF b # "nil" THEN "panic"
                   ELSE IF LoopCond(0, m) THEN "attempt" ELSE "ret"
    /\ attempts' = m
    /\ i' = 0
    /\ err' = "nil"
    /\ calls' = 0
    /\ sleeps' = <<>>
    /\ UNCHANGED <<BaseURL, conc, totalPages, req, retryOn, seen, last, resp, acc, issued,
                   requests, outcome, clean, ret>>

\* Do on the transport New builds
retryHTTPClientDo == transportCall(MaxAttempts)

\* Do on a retryHTTPClient with any MaxAttempts
retryHTTPClientDoAnyCap == \E m \in Caps : transportCall(m)

\* resp, err = c.Client.Do(req); if !shouldRetry(resp, err) { return resp, err }
transportAttempt ==
    /\ pc = "attempt"
    /\ op = "retryHTTPClient.Do"
    /\ \E o \in TransportOutcomes :
          /\ outcome' = o
          /\ err' = o.e
          /\ last' = o.e
          /\ pc' = CASE defaultShouldRetry(o) = "panic" -> "panic"
                     [] defaultShouldRetry(o) = "retry" -> "sleep"
                     [] OTHER -> "ret"
    /\ calls' = calls + 1
    /\ UNCHANGED <<BaseURL, conc, totalPages, op, req, bodyBuf, attempts, retryOn, i, seen,
                   sleeps, resp, acc, issued, requests, clean, ret>>

\* time.Sleep(c.Interval * time.Duration(math.Pow(2, float64(i)))); i++; the
\* loop condition
transportSleep ==
    /\ pc = "sleep"
    /\ op = "retryHTTPClient.Do"
    /\ sleeps' = Append(sleeps, Interval * (2 ^ i))
    /\ i' = i + 1
    /\ pc' = IF LoopCond(i + 1, attempts) THEN "attempt" ELSE "ret"
    /\ UNCHANGED <<BaseURL, conc, totalPages, op, req, bodyBuf, attempts, retryOn, err,
                   calls, seen, last, resp, acc, issued, requests, outcome, clean, ret>>

\* return resp, err
transportReturn ==
    /\ pc = "ret"
    /\ op = "retryHTTPClient.Do"
    /\ Finish(IF outcome.kind = "resp" THEN "response" ELSE "", err)

(* ------------------ two calls on one Client, concurrently -------------- *)
\* the goroutines calling the Client, and the operation each calls
Procs == {1, 2}
ConcOps == <<"GetWorkspace", "GetStateVersion">>
ConcPaths == <<"workspace", "state-version">>

\* where the locals of goroutine p's call live: every call of do and
\* withRetries has its own parameters, locals and closures
SlotMutant(p) == 1
Slot(p) == p

\* the locals of one call before it starts
InitFrame ==
    [pc |-> "idle", i |-> 0, calls |-> 0, err |-> "nil", sleeps |-> <<>>,
     ret |-> [val |-> "", err |-> "nil"]]

\* do up to the first attempt, on the locals f
callStep(f) ==
    IF urlParseFails THEN [f EXCEPT !.pc = "ret", !.err = "ParseError"]
    ELSE [f EXCEPT !.pc = "attempt"]

\* one iteration of withRetries up to the sleep, f() returning e
attemptStep(f, e) ==
    [f EXCEPT !.err = e, !.calls = @ + 1,
              !.pc = IF doShouldRetry(e) THEN "sleep" ELSE "ret"]

\* time.Sleep, i++, the loop condition
sleepStep(f) ==
    [f EXCEPT !.sleeps = Append(@, Backoff(f.i)), !.i = @ + 1,
              !.pc = IF LoopCond(f.i + 1, doAttempts) THEN "attempt" ELSE "ret"]

\* the operation of goroutine p returns
returnStep(f, p) ==
    [f EXCEPT !.pc = "done",
              !.ret = [val |-> IF f.err = "nil" THEN Resource(ConcPaths[p]) ELSE "",
                       err |-> IF ConcOps[p] = "GetWorkspace" THEN workspaceErr(f.err)
                               ELSE stateVersionErr(f.err)]]

\* goroutine p's locals
Frame(p) == conc.frames[Slot(p)]

\* goroutine p takes a step that turns its locals into g, and the same call
\* run alone, meeting the same result, turns its locals into a
ConcStep(p, g, a) ==
    /\ conc' = [frames |-> [conc.frames EXCEPT ![Slot(p)] = g],
                alone |-> [conc.alone EXCEPT ![p] = a]]
    /\ UNCHANGED BaseURL
    /\ UNCHANGED callVars

concCall ==
    \E p \in Procs :
        /\ Frame(p).pc = "idle"
        /\ ConcStep(p, callStep(Frame(p)), callStep(conc.alone[p]))

concAttempt ==
    \E p \in Procs :
        /\ Frame(p).pc = "attempt"
        /\ \E o \in Outcomes :
              ConcStep(p, attemptStep(Frame(p), AttemptResult(o)),
                          attemptStep(conc.alone[p], AttemptResult(o)))

concSleep ==
    \E p \in Procs :
        /\ Frame(p).pc = "sleep"
        /\ ConcStep(p, sleepStep(Frame(p)), sleepStep(conc.alone[p]))

concReturn ==
    \E p \in Procs :
        /\ Frame(p).pc = "ret"
        /\ ConcStep(p, returnStep(Frame(p), p), returnStep(conc.alone[p], p))

Init ==
    /\ BaseURL \in {"valid", "malformed"}
    /\ totalPages \in 1..MaxPages
    /\ op = "none"
    /\ pc = "idle"
    /\ req = [method |-> "", path |-> "", query |-> NoQuery]
    /\ bodyBuf = "nil"
    /\ attempts = 0
    /\ retryOn = {}
    /\ i = 0
    /\ err = "nil"
    /\ calls = 0
    /\ seen = {}
    /\ last = "nil"
    /\ sleeps = <<>>
    /\ resp = [CurrentPage |-> 0, TotalPages |-> 0, Data |-> <<>>]
    /\ acc = <<>>
    /\ issued = <<>>
    /\ requests = <<>>
    /\ outcome = [kind |-> "none", e |-> "nil", status |-> 0, body |-> "ok"]
    /\ clean = TRUE
    /\ ret = [val |-> "", err |-> "nil"]
    /\ conc = [frames |-> [s \in Procs |-> InitFrame],
               alone |-> [p \in Procs |-> InitFrame]]

Next ==
    \/ withRetries
    \/ fAttempt
    \/ Sleep
    \/ withRetriesReturn
    \/ doAttempt
    \/ GetWorkspace
    \/ GetWorkspaceReturn
    \/ GetStateVersion
    \/ GetStateVersionReturn
    \/ CreateRun
    \/ CreateWorkspace
    \/ CreateVariable
    \/ CreateReturn
    \/ AssignWorkspaceSSHKey
    \/ AssignWorkspaceSSHKeyReturn
    \/ ListOrganizations
    \/ ListOrganizationsReturn
    \/ ListWorkspaces
    \/ ListWorkspacesReturn
    \/ ListStateVersions
    \/ ListStateVersionsReturn
    \/ GetLatestStateVersion
    \/ GetLatestStateVersionReturn
    \/ downloadAttempt
    \/ downloadReturn
    \/ DownloadState
    \/ DownloadStateReturn
    \/ DownloadLatestState
    \/ DownloadLatestStateReturn

Spec == Init /\ [][Next]_vars

\* the retrying transport of the earlier revision, called on its own
NextTransport ==
    \/ retryHTTPClientDo
    \/ transportAttempt
    \/ transportSleep
    \/ transportReturn

SpecTransport == Init /\ [][NextTransport]_vars

\* withRetries and retryHTTPClient.Do called with any attempt cap
NextCaps ==
    \/ withRetriesAnyCap
    \/ fAttempt
    \/ Sleep
    \/ withRetriesReturn
    \/ retryHTTPClientDoAnyCap
    \/ transportAttempt
    \/ transportSleep
    \/ transportReturn

SpecCaps == Init /\ [][NextCaps]_vars

\* two goroutines calling one Client
NextConc ==
    \/ concCall
    \/ concAttempt
    \/ concSleep
    \/ concReturn

SpecConc == Init /\ [][NextConc]_vars

(* ======================= properties of the code ======================= *)
\* the current withRetries call has returned (to the operation or beyond)
Returned == pc \in {"ret", "done"}

\* the latest attempt of the current c.do call got a response with status st
GotStatus(st) == calls >= 1 /\ outcome.kind = "resp" /\ outcome.status = st

\* the latest attempt of the current c.do call got a status in 200..299
GotSuccess == calls >= 1 /\ outcome.kind = "resp" /\ outcome.status \in 200..299

\* the operation runs c.do (it is not a direct call of withRetries and not in
\* the download of a state version)
InDo == op \notin {"none", "withRetries"} /\ ~InDownload

\* the concatenation of pages 1..k of a list endpoint
RECURSIVE Pages(_)
Pages(k) == IF k = 0 THEN <<>> ELSE Pages(k - 1) \o PageData(k)

\* C1: a direct withRetries call with attempts = N >= 1 whose predicate is
\* true of every result never invokes f more than N times, has invoked it
\* exactly N times when it returns, and returns the result of the N-th
\* (latest) invocation itself, success or failure.
C1_AlwaysRetryRunsN ==
    (op = "withRetries" /\ retryOn = FResults) =>
        /\ calls <= attempts
        /\ Returned => (calls = attempts /\ err = last)
        /\ pc = "done" => ret.err = last

C1_Witness ==
    /\ op = "withRetries" /\ retryOn = FResults /\ pc = "done"
    /\ attempts = 3 /\ calls = 3 /\ last = "nil" /\ ret.err = "nil"
    /\ seen = {"nil", "NetTimeout"}

\* C2: in a direct withRetries call, once the first invocation of f has
\* produced a result the predicate rejects, withRetries has returned: f was
\* invoked once, time.Sleep was never called, and the value returned is that
\* first result, nil or error.
C2_NoRetryRunsOnce ==
    (op = "withRetries" /\ calls = 1 /\ last \notin retryOn) =>
        /\ Returned
        /\ sleeps = <<>>
        /\ err = last
        /\ pc = "done" => ret.err = last

C2_Witness ==
    /\ op = "withRetries" /\ pc = "done" /\ attempts = 3 /\ calls = 1
    /\ retryOn = {"ErrBadStatus", "NetTimeout"}
    /\ last = "ErrNotFound" /\ ret.err = "ErrNotFound" /\ sleeps = <<>>

\* C3: when an attempt of c.do gets status 401, do returns ErrUnauthorized
\* right after that attempt (no sleep, no further attempt), whatever the
\* earlier attempts of the call met, and the operation returns it unchanged.
C3_UnauthorizedIsTerminal ==
    (InDo /\ GotStatus(401)) =>
        /\ Returned
        /\ err = "ErrUnauthorized"
        /\ Len(requests) = calls
        /\ pc = "done" => ret.err = "ErrUnauthorized"

C3_Witness ==
    /\ InDo /\ GotStatus(401) /\ pc = "done" /\ calls = 3
    /\ seen = {"ErrBadStatus", "NetTimeout", "ErrUnauthorized"}
    /\ ret.err = "ErrUnauthorized"

\* the not-found error GetWorkspace and GetStateVersion return
NotFoundOf(o) ==
    IF o = "GetWorkspace" THEN "ErrWorkspaceNotFound" ELSE "ErrStateVersionNotFound"

\* C4 as stated: a 404 answer to GetWorkspace / GetStateVersion is returned as
\* the specific not-found error, never as ErrNotFound, and the request was
\* attempted exactly once.
C4_Original ==
    (op \in GetOps /\ GotStatus(404) /\ pc = "done") =>
        /\ ret.err = NotFoundOf(op)
        /\ calls = 1

\* C4 amended: a 404 answer to GetWorkspace / GetStateVersion ends the call
\* with no attempt after the one that got the 404, the operation returns the
\* zero value with ErrWorkspaceNotFound / ErrStateVersionNotFound, and neither
\* operation ever returns ErrNotFound; the request is attempted exactly once
\* when the 404 answers the first attempt (earlier attempts that met a
\* retryable result have each been made).
C4_NotFoundRemapped ==
    /\ (op \in GetOps /\ pc = "done") => ret.err # "ErrNotFound"
    /\ (op \in GetOps /\ GotStatus(404)) =>
          /\ Returned
          /\ err = "ErrNotFound"
          /\ Len(requests) = calls
          /\ seen \subseteq {"ErrNotFound"} => calls = 1
          /\ pc = "done" => (ret.err = NotFoundOf(op) /\ ret.val = "")

C4_Witness ==
    /\ op = "GetStateVersion" /\ GotStatus(404) /\ pc = "done"
    /\ calls = 1 /\ ret.err = "ErrStateVersionNotFound"

\* C5 as stated: an operation whose request carries a body hands at most one
\* request to the HTTP client per call, whatever the server answers.
C5_BodySentAtMostOnce ==
    op \in BodyOps => Len(requests) <= 1

\* C6 as stated: a list operation against a reachable server with P pages
\* that answers every request with the page it names issues one request per
\* c.do call, the k-th for page k, at most P of them, and returns the
\* concatenation of pages 1..P.
C6_ListFetchesEveryPageOnce ==
    (op \in ListOps /\ BaseURL = "valid" /\ clean) =>
        /\ calls <= 1
        /\ Len(issued) <= totalPages
        /\ \A k \in 1..Len(issued) : PageOf(issued[k].query) = k
        /\ pc = "done" =>
              /\ ret.err = "nil"
              /\ Len(issued) = totalPages
              /\ ret.val = Pages(totalPages)

\* C7: when a c.do call of a list operation returns an error, on the first
\* page or a later one, the next thing the operation does is return: the list
\* it returns is empty whatever it had accumulated, the error is non-nil (the
\* error of c.do, a 404 in the operation's own not-found form), and no
\* further c.do call or request is made.
C7_ListFailsAtomically ==
    [][(op \in ListOps /\ pc = "ret" /\ err # "nil") =>
          /\ pc' = "done"
          /\ ret'.val = <<>>
          /\ ret'.err \in {err, workspaceErr(err), stateVersionErr(err)}
          /\ ret'.err # "nil"
          /\ issued' = issued
          /\ requests' = requests]_vars

C7_Witness ==
    /\ op = "ListStateVersions" /\ pc = "done" /\ ret.err = "ErrBadStatus"
    /\ ret.val = <<>> /\ acc = Pages(2) /\ Len(issued) = 3 /\ totalPages = 3

\* C8 as stated: for a bodyless c.do call, attempts that all meet BadStatus
\* number exactly 10 when the call returns, and it returns ErrBadStatus; a
\* successful status on an attempt before the 10th ends the call with success.
C8_Original ==
    (InDo /\ op \notin BodyOps) =>
        /\ (pc = "ret" /\ seen = {"ErrBadStatus"}) => (calls = doAttempts /\ err = "ErrBadStatus")
        /\ (GotSuccess /\ calls < doAttempts) => (Returned /\ err = "nil")

\* C8 amended: for a bodyless c.do call, attempts that all meet BadStatus
\* number exactly 10 when the call returns, and it returns ErrBadStatus; a
\* successful status on an attempt before the 10th whose body decodes ends
\* the call with success and no further attempt.
C8_BadStatusRetriedToCap ==
    (InDo /\ op \notin BodyOps) =>
        /\ calls <= doAttempts
        /\ (pc = "ret" /\ seen = {"ErrBadStatus"}) =>
              (calls = doAttempts /\ err = "ErrBadStatus" /\ Len(requests) = doAttempts)
        /\ (GotSuccess /\ outcome.body = "ok" /\ calls < doAttempts) =>
              (Returned /\ err = "nil" /\ Len(requests) = calls)

C8_Witness ==
    /\ op = "GetWorkspace" /\ pc = "done" /\ seen = {"ErrBadStatus"}
    /\ calls = 10 /\ ret.err = "ErrBadStatus" /\ Len(sleeps) = 10

\* the result C9 gives an attempt that got a response
ClaimedResult(o) ==
    IF o.status = 401 THEN "ErrUnauthorized"
    ELSE IF o.status = 404 THEN "ErrNotFound"
    ELSE IF o.status \in 200..299 THEN decode(o.body)
    ELSE "ErrBadStatus"

\* C9 as stated: the result of an attempt that got a response is decided by
\* the status alone: 401 ErrUnauthorized, 404 ErrNotFound, 200..299 the
\* result of decoding, anything else ErrBadStatus.
C9_ClassifiedByStatus ==
    (InDo /\ calls >= 1 /\ outcome.kind = "resp") => last = ClaimedResult(outcome)

\* C10 as stated: a successful status whose body Decode rejects ends the call
\* with Decode's error after that attempt.
C10_Original ==
    (InDo /\ GotSuccess /\ outcome.body # "ok") =>
        /\ Returned
        /\ err \notin {"nil", "ErrBadStatus"}

\* C10 amended: a successful status whose body is malformed ends the call
\* after that attempt with the decode error, which is not ErrBadStatus and is
\* returned by the operation; (a body whose read times out makes Decode
\* return a timeout error, which is retried like any timeout).
C10_DecodeErrorIsTerminal ==
    (InDo /\ GotSuccess /\ outcome.body = "malformed") =>
        /\ Returned
        /\ err = "DecodeError"
        /\ Len(requests) = calls
        /\ pc = "done" => ret.err = "DecodeError"

C10_Witness ==
    /\ op = "ListWorkspaces" /\ GotStatus(200) /\ outcome.body = "malformed"
    /\ pc = "done" /\ calls = 2 /\ ret.err = "DecodeError"

\* C11 as stated: GetLatestStateVersion issues a single request, a
\* state-versions list filtered by organization and workspace.
C11_Original ==
    op = "GetLatestStateVersion" =>
        /\ Len(issued) <= 1
        /\ \A k \in 1..Len(issued) :
              issued[k].path = "state-versions" /\ issued[k].query.filter

\* C11 amended: GetLatestStateVersion issues at most two requests, neither a
\* list: a GET of the workspace and then, once that succeeded, a GET of the
\* current-state-version of the workspace's ID. It returns the resource the
\* second request decoded; a 404 on the first request returns
\* ErrWorkspaceNotFound, a 404 on the second ErrStateVersionNotFound, and
\* every error comes with the zero StateVersion.
C11_LatestViaCurrentStateVersion ==
    op = "GetLatestStateVersion" =>
        /\ Len(issued) \in 1..2
        /\ issued[1] = [method |-> "GET", path |-> "workspace", query |-> NoQuery,
                        body |-> "nil"]
        /\ Len(issued) = 2 =>
              issued[2] = [method |-> "GET",
                           path |-> CurrentStateVersionPath(IDOf(Resource("workspace"))),
                           query |-> NoQuery, body |-> "nil"]
        /\ pc = "done" =>
              /\ ret.err = "nil" =>
                    (Len(issued) = 2 /\ ret.val = Resource(issued[2].path))
              /\ ret.err # "nil" => ret.val = ""
              /\ GotStatus(404) =>
                    ret.err = IF Len(issued) = 1 THEN "ErrWorkspaceNotFound"
                              ELSE "ErrStateVersionNotFound"

C11_Witness ==
    /\ op = "GetLatestStateVersion" /\ pc = "done" /\ Len(issued) = 2
    /\ GotStatus(404) /\ ret.err = "ErrStateVersionNotFound"

\* C12 as stated: in DownloadState's download hop an attempt that fails with
\* neither a timeout nor a status other than 200 ends the call, and a 200
\* response makes the call return the bytes of the body with a nil error.
C12_Original ==
    (op = "DownloadState" /\ InDownload) =>
        /\ (calls >= 1 /\ last \notin {"NetTimeout", "ErrBadStatus"}) => Returned
        /\ (pc = "done" /\ GotStatus(200)) =>
              ret = [val |-> Bytes(req.path), err |-> "nil"]

\* C12 amended: the download hop of DownloadState sends plain GETs to the
\* HostedStateDownloadURL of the state version that was fetched, outside
\* c.do; an attempt is followed by another one exactly when it met a timeout
\* or a status other than 200 and fewer than 10 attempts were made; a 200
\* response whose body is read in full returns exactly the bytes of that body
\* with a nil error, and a 200 response whose body read fails returns the
\* read's error.
C12_DownloadHop ==
    (op = "DownloadState" /\ InDownload) =>
        /\ req.path = HostedStateDownloadURL(Resource("state-version"))
        /\ Len(issued) = 1
        /\ calls >= 1 =>
              /\ requests[Len(requests)].method = "GET"
              /\ requests[Len(requests)].path = req.path
        /\ (calls >= 1 /\ last \notin {"NetTimeout", "ErrBadStatus"}) => Returned
        /\ (calls >= 1 /\ calls < doAttempts /\ outcome.kind = "resp"
              /\ outcome.status # 200) => ~Returned
        /\ (calls >= 1 /\ calls < doAttempts /\ last = "NetTimeout") => ~Returned
        /\ (pc = "done" /\ GotStatus(200)) =>
              /\ outcome.body = "ok" => ret = [val |-> Bytes(req.path), err |-> "nil"]
              /\ outcome.body # "ok" => ret.err = "ReadError"

C12_Witness ==
    /\ op = "DownloadState" /\ InDownload /\ pc = "done"
    /\ seen = {"NetTimeout", "ErrBadStatus", "nil"} /\ GotStatus(200)
    /\ ret = [val |-> Bytes(HostedStateDownloadURL(Resource("state-version"))),
              err |-> "nil"]

\* C13: in DownloadState the download hop runs a withRetries call of its own:
\* whatever number of attempts (1 to 10) the GetStateVersion request made,
\* the download makes up to 10 attempts counted from 0, its loop index starts
\* at 0 and the delays it sleeps are those of indices 0, 1, 2, ...
C13_IndependentBudgets ==
    (op = "DownloadState" /\ InDownload) =>
        /\ attempts = doAttempts
        /\ Len(requests) - calls \in 1..doAttempts
        /\ calls \in 0..doAttempts
        /\ i = Len(sleeps)
        /\ i \in {calls - 1, calls}
        /\ calls = 0 => (i = 0 /\ sleeps = <<>> /\ pc = "attempt")
        /\ \A k \in 1..Len(sleeps) : sleeps[k] = Backoff(k - 1)

C13_Witness ==
    /\ op = "DownloadState" /\ InDownload
    /\ Len(requests) = 2 * doAttempts /\ calls = doAttempts
    /\ Len(sleeps) = doAttempts /\ sleeps[1] = interval

\* C14 as stated: the delay slept before attempt k (counted from 0), which is
\* the k-th delay of the call, is interval * 2^k.
C14_Original ==
    \A k \in 1..Len(sleeps) : sleeps[k] = interval * (2 ^ k)

\* C14 amended: no delay precedes attempt 0; the delay slept after attempt k
\* (counted from 0), which precedes attempt k + 1 when there is one, is
\* interval * 2^k with interval = 500 ms, and each delay is strictly longer
\* than the one before it.
C14_BackoffSchedule ==
    /\ calls = 0 => sleeps = <<>>
    /\ Len(sleeps) <= calls
    /\ \A k \in 1..Len(sleeps) :
          /\ sleeps[k] = interval * (2 ^ (k - 1))
          /\ k > 1 => sleeps[k] > sleeps[k - 1]
    /\ sleeps # <<>> => sleeps[1] = 500

C14_Witness ==
    /\ Len(sleeps) = 4 /\ sleeps[4] = 4000 /\ pc = "attempt" /\ calls = 4

\* the sum of the delays slept
RECURSIVE TotalSleep(_)
TotalSleep(sl) == IF sl = <<>> THEN 0 ELSE sl[1] + TotalSleep(Tail(sl))

\* C15: the delays a withRetries call has slept sum to interval * (2^k - 1)
\* for k delays; when the call returns, k is the number of attempts the
\* predicate judged retryable; a c.do call or a download never sleeps more
\* than interval * (2^10 - 1) = 511500 ms and sleeps exactly that when all 10
\* attempts were retryable.
C15_TotalSleep ==
    /\ TotalSleep(sleeps) = interval * (2 ^ Len(sleeps) - 1)
    /\ (Returned /\ calls >= 1) =>
          Len(sleeps) = IF err \in retryOn THEN calls ELSE calls - 1
    /\ (InDo \/ InDownload) =>
          /\ TotalSleep(sleeps) <= interval * (2 ^ doAttempts - 1)
          /\ (Returned /\ calls = doAttempts /\ err \in retryOn) =>
                TotalSleep(sleeps) = 511500

C15_Witness ==
    /\ InDo /\ pc = "done" /\ calls = doAttempts /\ TotalSleep(sleeps) = 511500
    /\ seen = {"ErrBadStatus", "NetTimeout"}

\* C16 as stated: an attempt of c.do that failed at the network level (a
\* timeout or any other failure of client.Do) before the 10th is followed by
\* another attempt.
C16_Original ==
    (InDo /\ calls >= 1 /\ calls < doAttempts /\ outcome.kind = "err") => ~Returned

\* C16 amended: an attempt of c.do whose client.Do timed out is followed by a
\* backoff and a further attempt while fewer than 10 were made, and after the
\* 10th the call returns the timeout error; any other network failure of
\* client.Do ends the call at once with that error. The operation returns
\* the network error unchanged.
C16_OnlyTimeoutsRetried ==
    (InDo /\ calls >= 1 /\ outcome.kind = "err") =>
        /\ (outcome.e = "NetTimeout" /\ calls < doAttempts) => pc \in {"sleep", "attempt"}
        /\ (outcome.e = "NetTimeout" /\ calls = doAttempts) =>
              (pc \in {"sleep", "ret", "done"} /\ err = "NetTimeout")
        /\ outcome.e = "NetError" =>
              (Returned /\ err = "NetError" /\ Len(sleeps) = calls - 1)
        /\ pc = "done" => ret.err = outcome.e

C16_Witness ==
    /\ InDo /\ pc = "done" /\ calls = doAttempts /\ seen = {"NetTimeout"}
    /\ ret.err = "NetTimeout" /\ Len(requests) = doAttempts

\* C17: when url.Parse rejects BaseURL, c.do returns the parse error having
\* made no attempt and slept no delay, and the operation returns that error
\* after this single c.do call.
C17_ParseErrorBeforeAnyAttempt ==
    (InDo /\ BaseURL = "malformed") =>
        /\ Returned
        /\ err = "ParseError"
        /\ calls = 0
        /\ requests = <<>>
        /\ sleeps = <<>>
        /\ Len(issued) = 1
        /\ pc = "done" => ret.err = "ParseError"

C17_Witness ==
    /\ op = "DownloadLatestState" /\ BaseURL = "malformed" /\ pc = "done"
    /\ ret.err = "ParseError" /\ calls = 0 /\ sleeps = <<>>

\* C18 as stated: retryHTTPClient.Do never panics, whatever the request and
\* whatever the underlying client returns.
C18_NeverPanics == pc # "panic"

\* C19 as stated: with defaultShouldRetry a first attempt answered 401 or 404
\* makes retryHTTPClient.Do return after that attempt, and an attempt that
\* timed out before the last is followed by a backoff.
C19_UnauthorizedNotFoundTerminal ==
    (op = "retryHTTPClient.Do" /\ calls = 1) =>
        /\ (outcome.kind = "resp" /\ outcome.status \in {401, 404}) => Returned
        /\ (outcome.kind = "err" /\ outcome.e = "NetTimeout") => pc = "sleep"

FetchOps ==
    {"GetWorkspace", "GetStateVersion", "GetLatestStateVersion", "DownloadState",
     "DownloadLatestState"}

\* C21: while every attempt of a fetch or download operation succeeds, no
\* c.do call makes a second attempt, and when the operation returns it
\* returns no error and has sent: GetWorkspace and GetStateVersion 1 request;
\* GetLatestStateVersion 2, the workspace get and then the
\* current-state-version of the returned workspace ID; DownloadState 2, the
\* state version and then the download; DownloadLatestState 3, with the
\* download last.
C21_RequestCounts ==
    (op \in FetchOps /\ BaseURL = "valid" /\ clean) =>
        /\ calls <= 1
        /\ (pc = "ret" /\ ~InDownload) => Len(requests) = 1
        /\ pc = "done" =>
              /\ ret.err = "nil"
              /\ op = "GetWorkspace" =>
                    /\ Len(issued) = 1 /\ Len(requests) = 1
                    /\ requests[1].path = "workspace"
              /\ op = "GetStateVersion" =>
                    /\ Len(issued) = 1 /\ Len(requests) = 1
                    /\ requests[1].path = "state-version"
              /\ op = "GetLatestStateVersion" =>
                    /\ Len(issued) = 2 /\ Len(requests) = 1
                    /\ issued[1].path = "workspace"
                    /\ issued[2].path = "workspaces/data:workspace/current-state-version"
                    /\ requests[1].path = issued[2].path
              /\ op = "DownloadState" =>
                    /\ Len(issued) = 1 /\ Len(requests) = 2
                    /\ requests[1].path = "state-version"
                    /\ requests[2].path = "url:data:state-version"
              /\ op = "DownloadLatestState" =>
                    /\ Len(issued) = 2 /\ Len(requests) = 2
                    /\ issued[1].path = "workspace"
                    /\ issued[2].path = "workspaces/data:workspace/current-state-version"
                    /\ requests[1].path = issued[2].path
                    /\ requests[2].path =
                          "url:data:workspaces/data:workspace/current-state-version"

C21_Witness ==
    /\ op = "DownloadLatestState" /\ clean /\ pc = "done" /\ ret.err = "nil"
    /\ Len(issued) = 2 /\ Len(requests) = 2 /\ calls = 1

\* C22: a download (of DownloadState or DownloadLatestState) none of whose
\* attempts met status 200 returns no bytes and the error of its last
\* attempt, ErrBadStatus or a network error; a download returns a nil error
\* only when its last attempt met status 200.
C22_NoBodyWithoutOK ==
    (InDownload /\ pc = "done") =>
        /\ "nil" \notin seen =>
              /\ ret.val = ""
              /\ ret.err = last
              /\ ret.err \in {"ErrBadStatus", "NetTimeout", "NetError"}
              /\ ret.err = "ErrBadStatus" => calls = doAttempts
        /\ ret.err = "nil" => (outcome.kind = "resp" /\ outcome.status = 200)
        /\ (outcome.kind = "resp" /\ outcome.status # 200) =>
              ret = [val |-> "", err |-> "ErrBadStatus"]

C22_Witness ==
    /\ InDownload /\ pc = "done" /\ op = "DownloadLatestState"
    /\ calls = doAttempts /\ seen = {"ErrBadStatus", "NetTimeout"}
    /\ outcome.kind = "resp" /\ outcome.status = 201
    /\ ret = [val |-> "", err |-> "ErrBadStatus"]

\* C23: in every withRetries call (direct, of c.do, of the download) f is
\* invoked at most `attempts` times and only while every earlier result was
\* judged retryable; a result judged non-retryable makes the call return that
\* result at once; a call that has returned either met a non-retryable
\* result or made all its attempts.
C23_StopsAtFirstNonRetryable ==
    (op # "none" /\ calls >= 1) =>
        /\ calls <= attempts
        /\ pc \in {"attempt", "sleep"} => seen \subseteq retryOn
        /\ last \notin retryOn => (Returned /\ err = last /\ Len(sleeps) = calls - 1)
        /\ Returned => (err = last /\ (last \notin retryOn \/ calls = attempts))
        /\ (pc = "done" /\ op = "withRetries") => ret.err = last

C23_Witness ==
    /\ InDo /\ pc = "done" /\ calls = 3 /\ seen = {"ErrBadStatus", "ErrNotFound"}
    /\ err = "ErrNotFound" /\ Len(requests) = 3 /\ Len(sleeps) = 2

\* C24 as stated: every attempt of a c.do call for a request with a body
\* sends the whole body, as the first attempt does.
C24_SameBodyEveryAttempt ==
    (InDo /\ op \in BodyOps) =>
        \A k \in 1..Len(requests) : requests[k].body = requests[1].body

\* the download URLs of the state versions the server holds
DownloadURLs ==
    {HostedStateDownloadURL(Resource("state-version")),
     HostedStateDownloadURL(Resource(CurrentStateVersionPath(IDOf(Resource("workspace")))))}

\* C25: every request an attempt of c.do sends carries Authorization: Bearer
\* <AtlasToken> and Content-Type application/vnd.api+json; the attempts of a
\* download go to the state version's download URL, and no request to a
\* download URL carries the bearer token.
C25_BearerOnlyOnApiRequests ==
    /\ \A k \in 1..Len(requests) :
          IF requests[k].path \in DownloadURLs
          THEN requests[k].auth # "Bearer AtlasToken"
          ELSE /\ requests[k].auth = "Bearer AtlasToken"
               /\ requests[k].contentType = "application/vnd.api+json"
    /\ InDownload =>
          \A k \in (Len(requests) - calls + 1)..Len(requests) :
              requests[k].path = req.path /\ req.path \in DownloadURLs
    /\ InDo => \A k \in 1..Len(requests) : requests[k].path \notin DownloadURLs

C25_Witness ==
    /\ op = "DownloadState" /\ InDownload /\ Len(requests) = 4 /\ calls = 2
    /\ requests[2].auth = "Bearer AtlasToken" /\ requests[3].auth = "none"
    /\ requests[4].path = "url:data:state-version"

\* the operations made of several steps
MultiStepOps == {"GetLatestStateVersion", "DownloadState", "DownloadLatestState"}

\* what a step of a multi-step operation does after a step that failed
FailedStepStops ==
    op \in MultiStepOps =>
          /\ Len(issued') > Len(issued) => err = "nil"
          /\ (InDownload' /\ ~InDownload) => (err = "nil" /\ issued' = issued)
          /\ (pc = "ret" /\ err # "nil") =>
                /\ pc' = "done"
                /\ issued' = issued /\ requests' = requests /\ req' = req
                /\ ret'.err =
                      IF err # "ErrNotFound" \/ InDownload THEN err
                      ELSE IF issued[Len(issued)].path = "workspace"
                           THEN "ErrWorkspaceNotFound"
                           ELSE "ErrStateVersionNotFound"

\* C26: in GetLatestStateVersion, DownloadState and DownloadLatestState a
\* further c.do call is issued, and the download is started, only when the
\* step before returned no error; when a step returns an error the operation
\* returns at once, without a further request, that error: unchanged, but for
\* a 404 of the workspace get returned as ErrWorkspaceNotFound and a 404 of a
\* state version get as ErrStateVersionNotFound.
C26_FailedStepStopsSequence == [][FailedStepStops]_vars

C26_Witness ==
    /\ op = "DownloadLatestState" /\ pc = "done" /\ Len(issued) = 1
    /\ GotStatus(404) /\ ret.err = "ErrWorkspaceNotFound" /\ ~InDownload

\* C27 as stated: a list operation against a server that honours
\* page[number] never requests a page it has already received.
C27_NoPageRequestedTwice ==
    op \in ListOps =>
        \A j, k \in 1..Len(issued) :
            j < k => PageOf(issued[j].query) # PageOf(issued[k].query)

\* C28: every c.do call of ListStateVersions is a GET of the state-versions
\* path with the organization and workspace filters; the first names no page,
\* and each later one names the current-page of the response before it plus 1.
C28_FiltersKeptAcrossPages ==
    op = "ListStateVersions" =>
        /\ \A k \in 1..Len(issued) :
              /\ issued[k].method = "GET"
              /\ issued[k].path = "state-versions"
              /\ issued[k].query.filter
              /\ k = 1 => issued[k].query.page = 0
              /\ k > 1 => issued[k].query.page = PageOf(issued[k - 1].query) + 1
        /\ (Len(issued) > 1 /\ calls = 0) =>
              issued[Len(issued)].query.page = resp.CurrentPage + 1

C28_Witness ==
    /\ op = "ListStateVersions" /\ Len(issued) = 3 /\ pc = "done" /\ ret.err = "nil"
    /\ issued[3].query = [filter |-> TRUE, page |-> 3]

\* C29: a list operation whose c.do call, for the first page or a later one,
\* met a 404 returns ErrWorkspaceNotFound from ListWorkspaces,
\* ErrStateVersionNotFound from ListStateVersions and ErrNotFound from
\* ListOrganizations; an operation whose c.do call returned ErrUnauthorized
\* or ErrBadStatus returns that error.
C29_ListNotFoundRemapped ==
    (InDo /\ pc = "done") =>
        /\ (op \in ListOps /\ GotStatus(404)) =>
              ret.err = CASE op = "ListWorkspaces" -> "ErrWorkspaceNotFound"
                          [] op = "ListStateVersions" -> "ErrStateVersionNotFound"
                          [] OTHER -> "ErrNotFound"
        /\ err \in {"ErrUnauthorized", "ErrBadStatus"} => ret.err = err

C29_Witness ==
    /\ op = "ListStateVersions" /\ pc = "done" /\ Len(issued) = 2 /\ GotStatus(404)
    /\ ret = [val |-> <<>>, err |-> "ErrStateVersionNotFound"]

\* the operations that return one resource or the bytes of a state
ValueOps ==
    {"GetWorkspace", "GetStateVersion", "GetLatestStateVersion", "CreateWorkspace",
     "CreateRun", "CreateVariable", "DownloadState", "DownloadLatestState"}

\* C30 as stated: an operation returning one resource or bytes returns the
\* empty value with every non-nil error.
C30_ErrorMeansZeroValue ==
    (op \in ValueOps /\ pc = "done" /\ ret.err # "nil") => ret.val = ""

====
